---- MODULE Spec2Model ----
(***************************************************************************)
(* LaFrance: French text-to-speech sessions (src/main.py, src/config.py).  *)
(*                                                                         *)
(* A Python str is modelled as a sequence of one-character strings, so     *)
(* that joining, stripping, splitting and prefix tests are computed the    *)
(* way the code computes them.  A Python dict is an insertion-ordered      *)
(* sequence of <<key, value>> pairs.                                       *)
(***************************************************************************)
EXTENDS Integers, Sequences, FiniteSets, TLC

----------------------------------------------------------------------------
(* Bounds of the model *)

\* total number of speak calls started in one behaviour
MaxCalls == 2

----------------------------------------------------------------------------
(* Strings *)

Whitespace == {" ", "\t"}
Letters ==
  {"a", "b", "c", "d", "e", "f", "g", "h", "i", "j", "k", "l", "m", "n", "o",
   "p", "q", "r", "s", "t", "u", "v", "w", "x", "y", "z",
   "A", "B", "C", "D", "E", "F", "G", "H", "I", "J", "K", "L", "M", "N", "O",
   "P", "Q", "R", "S", "T", "U", "V", "W", "X", "Y", "Z"}
Digits == {"0", "1", "2", "3", "4", "5", "6", "7", "8", "9"}
\* the class \w of Python's re on str: letters, digits and the underscore
WordChars == Letters \cup Digits \cup {"_"}

UpperToLower ==
  [c \in {"A", "B", "C", "D", "E", "F", "G", "H", "I", "J", "K", "L", "M",
          "N", "O", "P", "Q", "R", "S", "T", "U", "V", "W", "X", "Y", "Z"} |->
     CASE c = "A" -> "a" [] c = "B" -> "b" [] c = "C" -> "c" [] c = "D" -> "d"
       [] c = "E" -> "e" [] c = "F" -> "f" [] c = "G" -> "g" [] c = "H" -> "h"
       [] c = "I" -> "i" [] c = "J" -> "j" [] c = "K" -> "k" [] c = "L" -> "l"
       [] c = "M" -> "m" [] c = "N" -> "n" [] c = "O" -> "o" [] c = "P" -> "p"
       [] c = "Q" -> "q" [] c = "R" -> "r" [] c = "S" -> "s" [] c = "T" -> "t"
       [] c = "U" -> "u" [] c = "V" -> "v" [] c = "W" -> "w" [] c = "X" -> "x"
       [] c = "Y" -> "y" [] OTHER -> "z"]

\* str.lower()
lower(s) ==
  [i \in 1..Len(s) |-> IF s[i] \in DOMAIN UpperToLower THEN UpperToLower[s[i]]
                       ELSE s[i]]

\* str.startswith(p), str.endswith(p)
startswith(s, p) == Len(p) <= Len(s) /\ SubSeq(s, 1, Len(p)) = p
endswith(s, p) ==
  Len(p) <= Len(s) /\ SubSeq(s, Len(s) - Len(p) + 1, Len(s)) = p

RECURSIVE lstrip(_)
lstrip(s) ==
  IF s # <<>> /\ Head(s) \in Whitespace THEN lstrip(Tail(s)) ELSE s

RECURSIVE rstripSet(_, _)
rstripSet(s, chars) ==
  IF s # <<>> /\ s[Len(s)] \in chars
  THEN rstripSet(SubSeq(s, 1, Len(s) - 1), chars) ELSE s

\* str.strip()
strip(s) == rstripSet(lstrip(s), Whitespace)

\* str.split(): the maximal runs of non-whitespace characters, in order
RECURSIVE splitFrom(_, _, _)
splitFrom(s, word, words) ==
  IF s = <<>> THEN (IF word = <<>> THEN words ELSE Append(words, word))
  ELSE IF Head(s) \in Whitespace
       THEN splitFrom(Tail(s), <<>>,
                      IF word = <<>> THEN words ELSE Append(words, word))
       ELSE splitFrom(Tail(s), Append(word, Head(s)), words)

split(s) == splitFrom(s, <<>>, <<>>)

\* sep.join(words)
RECURSIVE join(_, _)
join(sep, words) ==
  IF words = <<>> THEN <<>>
  ELSE IF Len(words) = 1 THEN words[1]
  ELSE words[1] \o sep \o join(sep, Tail(words))

\* seq[:n]
Take(seq, n) == SubSeq(seq, 1, IF Len(seq) < n THEN Len(seq) ELSE n)

----------------------------------------------------------------------------
(* Configuration: src/config.py and the voice table of src/main.py *)

DEFAULT_VOICE == <<"h", "e", "n", "r", "i">>
DEFAULT_RATE == <<"-", "2", "5", "%">>
DEFAULT_VOLUME == <<"+", "0", "%">>
OUTPUT_DIR == <<"s", "a", "m", "p", "l", "e", "s">>
AUTO_PLAY == TRUE

VoiceNames ==
  {<<"h", "e", "n", "r", "i">>, <<"d", "e", "n", "i", "s", "e">>,
   <<"e", "l", "o", "i", "s", "e">>, <<"r", "e", "m", "y">>,
   <<"v", "i", "v", "i", "e", "n", "n", "e">>}

FRENCH_VOICES ==
  [n \in VoiceNames |->
     CASE n = <<"h", "e", "n", "r", "i">> ->
            <<"f", "r", "-", "F", "R", "-", "H", "e", "n", "r", "i",
              "N", "e", "u", "r", "a", "l">>
       [] n = <<"d", "e", "n", "i", "s", "e">> ->
            <<"f", "r", "-", "F", "R", "-", "D", "e", "n", "i", "s", "e",
              "N", "e", "u", "r", "a", "l">>
       [] n = <<"e", "l", "o", "i", "s", "e">> ->
            <<"f", "r", "-", "F", "R", "-", "E", "l", "o", "i", "s", "e",
              "N", "e", "u", "r", "a", "l">>
       [] n = <<"r", "e", "m", "y">> ->
            <<"f", "r", "-", "F", "R", "-", "R", "e", "m", "y",
              "M", "u", "l", "t", "i", "l", "i", "n", "g", "u", "a", "l",
              "N", "e", "u", "r", "a", "l">>
       [] OTHER ->
            <<"f", "r", "-", "F", "R", "-", "V", "i", "v", "i", "e", "n", "n",
              "e", "M", "u", "l", "t", "i", "l", "i", "n", "g", "u", "a", "l",
              "N", "e", "u", "r", "a", "l">>]

\* FRENCH_VOICES.get(voice, FRENCH_VOICES["denise"])
VoiceOrDenise(voice) ==
  IF voice \in VoiceNames THEN FRENCH_VOICES[voice]
  ELSE FRENCH_VOICES[<<"d", "e", "n", "i", "s", "e">>]

\* Python's None
None == <<"None">>

----------------------------------------------------------------------------
(* Python dict and list values held in self.cache *)

EmptyDict == [type |-> "dict", items |-> <<>>]

Keys(d) == {d.items[i][1] : i \in 1..Len(d.items)}

\* key in self.cache  (membership of a list is membership of its elements)
In(k, c) ==
  IF c.type = "dict" THEN k \in Keys(c)
  ELSE \E i \in 1..Len(c.items) : c.items[i] = k

\* self.cache[key] of a dict that holds key
DictGet(d, k) ==
  d.items[CHOOSE i \in 1..Len(d.items) : d.items[i][1] = k][2]

\* self.cache[key] = value: a held key keeps its place, a new one goes last
DictSet(d, k, v) ==
  [d EXCEPT !.items =
     IF k \in Keys(d)
     THEN [i \in 1..Len(d.items) |->
             IF d.items[i][1] = k THEN <<k, v>> ELSE d.items[i]]
     ELSE Append(d.items, <<k, v>>)]

\* del self.cache[key]
DictDel(d, k) ==
  [d EXCEPT !.items = SelectSeq(d.items, LAMBDA e : e[1] # k)]

\* the mapping as a set of <<key, path>> pairs, order forgotten
Pairs(c) == {c.items[i] : i \in 1..Len(c.items)}

----------------------------------------------------------------------------
(* The cache file <output_dir>/.cache.json as a JSON document *)

\* no file; a file that json.load rejects; a JSON object or array
Absent == [kind |-> "absent", type |-> "none", items |-> <<>>]
Garbage == [kind |-> "garbage", type |-> "none", items |-> <<>>]
JsonObject(members) == [kind |-> "json", type |-> "object", items |-> members]
JsonArray(elems) == [kind |-> "json", type |-> "array", items |-> elems]

\* a dump that writes the items last to first
json_dump_backwards(value) ==
  LET n == Len(value.items)
      items == [i \in 1..n |-> value.items[n + 1 - i]]
  IN  IF value.type = "dict" THEN JsonObject(items) ELSE JsonArray(items)

\* json.dump(self.cache, f, ensure_ascii=False, indent=2): a dict is written
\* as an object with its items in order, a list as an array
json_dump(value) ==
  IF value.type = "dict" THEN JsonObject(value.items)
  ELSE JsonArray(value.items)

\* json.load(f) of a document that parses: an object becomes a dict, a
\* repeated member name keeping its first place and its last value; an array
\* becomes a list
RECURSIVE object_pairs(_, _)
object_pairs(members, d) ==
  IF members = <<>> THEN d
  ELSE object_pairs(Tail(members),
                    DictSet(d, Head(members)[1], Head(members)[2]))

json_load(doc) ==
  IF doc.type = "object" THEN object_pairs(doc.items, EmptyDict)
  ELSE [type |-> "list", items |-> doc.items]

\* FrenchTTS._load_cache
_load_cache(file) ==
  IF file.kind # "absent"
  THEN IF file.kind = "json" THEN json_load(file) ELSE EmptyDict
  ELSE EmptyDict

\* FrenchTTS._save_cache; io is what the file system does with the write:
\* "ok", "open_fails" (open raises, the file is left as it was) or
\* "write_fails" (the file was truncated by open and the dump broke off)
_save_cache(value, file, io) ==
  CASE io = "ok" -> json_dump(value)
    [] io = "open_fails" -> file
    [] OTHER -> Garbage

IoOutcomes == {"ok", "open_fails", "write_fails"}

----------------------------------------------------------------------------
(* Cache key *)

\* the content without the rate, as the docstring's "text + voice + rate"
\* would read without it
cache_content_without_rate(text, voice, rate, volume) ==
  text \o <<"|">> \o voice \o <<"|">> \o volume

\* f"{text}|{self.voice}|{self.rate}|{self.volume}"
cache_content(text, voice, rate, volume) ==
  text \o <<"|">> \o voice \o <<"|">> \o rate \o <<"|">> \o volume

\* hashlib.md5(content.encode('utf-8')).hexdigest()[:16], the digest taken
\* as injective: the key stands for the content it was computed from
md5_hexdigest_16(content) == <<"#">> \o content

\* a key that also takes in the output directory of the session
_get_cache_key_with_dir(self, text) ==
  md5_hexdigest_16(cache_content(text, self.voice, self.rate, self.volume)
                     \o <<"|">> \o self.output_dir)

\* FrenchTTS._get_cache_key
_get_cache_key(self, text) ==
  md5_hexdigest_16(cache_content(text, self.voice, self.rate, self.volume))

----------------------------------------------------------------------------
(* File names *)

\* re.sub(r'[^\w\s\-\']', '', text)
remove_illegal(text) ==
  SelectSeq(text, LAMBDA c : c \in WordChars \cup Whitespace \cup {"-", "'"})

\* re.sub(r'\s+', ' ', cleaned)
RECURSIVE collapse_ws(_)
collapse_ws(s) ==
  IF s = <<>> THEN <<>>
  ELSE IF Head(s) \in Whitespace
       THEN <<" ">> \o collapse_ws(lstrip(s))
       ELSE <<Head(s)>> \o collapse_ws(Tail(s))

\* the default of the parameter max_length
DefaultMaxLength == 30
\* words = cleaned.split()[:4]
MaxWords == 4

\* FrenchTTS._sanitize_filename
_sanitize_filename(text, max_length) ==
  LET cleaned == strip(collapse_ws(remove_illegal(text)))
      words == Take(split(cleaned), MaxWords)
      joined == join(<<"_">>, words)
      result == IF Len(joined) > max_length
                THEN rstripSet(SubSeq(joined, 1, max_length), {"_"})
                ELSE joined
  IN  IF result # <<>> THEN result ELSE <<"a", "u", "d", "i", "o">>

DigitChar(n) == <<"0", "1", "2", "3", "4", "5", "6", "7", "8", "9">>[n + 1]

\* datetime.now().strftime("%Y%m%d%H%M%S"): the clock counts the seconds
\* that follow 2026-11-01 00:00:00
strftime(clock) ==
  <<"2", "0", "2", "6", "1", "1", "0", "1", "0", "0", "0", "0">>
    \o <<DigitChar(clock \div 10), DigitChar(clock % 10)>>

MP3 == <<".", "m", "p", "3">>

\* speak, lines 176-184: the output path of a call
output_path_of(self, text, filename, clock) ==
  LET auto == strftime(clock) \o <<"_">>
                \o _sanitize_filename(text, DefaultMaxLength) \o MP3
      name == IF filename = None THEN auto ELSE filename
      full == IF endswith(name, MP3) THEN name ELSE name \o MP3
  IN  self.output_dir \o <<"/">> \o full

----------------------------------------------------------------------------
(* State *)

\* The program runs interactive_mode (no argument on the command line), or
\* its class is used by callers that construct sessions and call speak and
\* clear_cache on them (quick_speak, demo_mode, importers of the module).
\* The third way is `main.py quick <text> [voice]`, run as two processes
\* that share the output directory: each constructs its own session and
\* speaks one text (quick_speak).
Modes == {"interactive", "library", "quick"}

\* session 1 is the one interactive_mode constructs, or the one the callers
\* of the class use, or the one of the first quick process; session 2 is the
\* one of the second quick process
Sessions == {1, 2}
InteractiveSession == 1
LibrarySession == 1

\* coroutine 0 is interactive_mode; coroutines 1 and 2 are callers of speak
\* on the library session, or the two quick processes
LoopTask == 0
LibraryTasks == {1, 2}
Tasks == {LoopTask} \cup LibraryTasks

VARIABLES
  mode,        \* how the program was started
  sess,        \* the FrenchTTS objects: voice, rate, volume, ..., cache
  cache_file,  \* the document held by <output_dir>/.cache.json
  files,       \* the audio files that exist, each with what it holds
  clock,       \* the second datetime.now() reads
  call,        \* per coroutine, the speak call it is awaiting in, if any
  loop,        \* where interactive_mode stands
  last,        \* the operation that completed in the last step, its result
  ncalls,      \* speak calls started so far
  probe        \* a key derivation on its own: the session, the text, the key

vars ==
  <<mode, sess, cache_file, files, clock, call, loop, last, ncalls, probe>>

NoSession ==
  [live |-> FALSE, voice |-> <<>>, rate |-> <<>>, volume |-> <<>>,
   output_dir |-> <<>>, auto_play |-> FALSE, use_cache |-> FALSE,
   cache |-> EmptyDict]

\* a speak call: its arguments, the locals cache_key and output_path, the
\* arguments given to edge_tts.Communicate, what the store held for the key
\* when the call began (entry), how the lookup of lines 162-173 went, how
\* often the collaborator was invoked, how the call ended and what the write
\* of the cache file did.  For the interactive loop, line is the input line
\* the operation came from; for clear_cache, count is its local `count`.
NoCall ==
  [op |-> "none", sess |-> 0, task |-> 0, text |-> <<>>, force |-> FALSE,
   key |-> <<>>, voice |-> <<>>, rate |-> <<>>, volume |-> <<>>,
   output_path |-> <<>>, entry |-> "none", lookup |-> "none", synth |-> 0,
   outcome |-> "none", ret |-> None, io |-> "none", line |-> None,
   count |-> 0]

Did(op, s, t) == [NoCall EXCEPT !.op = op, !.sess = s, !.task = t]

NoProbe ==
  [self |-> NoSession, text |-> <<>>, content |-> <<>>, key |-> <<>>,
   done |-> FALSE]

\* os.path.exists(path) for an audio file
exists(fs, path) == \E f \in fs : f.path = path

\* what the synthesis collaborator leaves at path: the audio of the request
\* (whole), or the beginning of it when it failed after opening the file
Written(fs, path, c, whole) ==
  {f \in fs : f.path # path}
    \cup {[path |-> path, text |-> c.text, voice |-> c.voice,
           rate |-> c.rate, volume |-> c.volume, whole |-> whole]}

----------------------------------------------------------------------------
(* FrenchTTS.__init__ *)

\* `x or DEFAULT`: None and the empty string are both falsy
OrDefault(x, default) == IF x = None \/ x = <<>> THEN default ELSE x

FrenchTTS(voice, rate, volume, use_cache, file) ==
  [live |-> TRUE,
   voice |-> VoiceOrDenise(OrDefault(voice, DEFAULT_VOICE)),
   rate |-> OrDefault(rate, DEFAULT_RATE),
   volume |-> OrDefault(volume, DEFAULT_VOLUME),
   output_dir |-> OUTPUT_DIR,
   auto_play |-> AUTO_PLAY,
   use_cache |-> use_cache,
   cache |-> _load_cache(file)]

----------------------------------------------------------------------------
(* FrenchTTS.speak up to `await communicate.save(output_path)` *)

\* line 162 without its first conjunct
looks_up_without_use_cache(self, force, key) ==
  ~force /\ In(key, self.cache)

\* line 162 with `not` dropped
looks_up_when_forced(self, force, key) ==
  self.use_cache /\ force /\ In(key, self.cache)

\* line 162 without its second conjunct
looks_up_whatever_force(self, force, key) ==
  self.use_cache /\ In(key, self.cache)

\* line 162: the condition under which the cached path is looked up
looks_up(self, force, key) ==
  self.use_cache /\ ~force /\ In(key, self.cache)

\* what the store holds for a key: nothing, a path whose file exists, or a
\* path whose file is gone
entry_of(cache, key, fs) ==
  IF cache.type = "dict" /\ key \in Keys(cache)
  THEN IF exists(fs, DictGet(cache, key)) THEN "present" ELSE "stale"
  ELSE "absent"

\* line 173 left out
invalidate_nothing(cache, key) == cache

\* line 173: del self.cache[cache_key]
invalidate(cache, key) == DictDel(cache, key)

\* lines 155-200.  The result is the session's cache after these lines and
\* the call as it stands: finished (a cached path returned, or the TypeError
\* of indexing a list by a string raised), or waiting for the collaborator.
speak_begin(s, t, self, text, filename, force, now, fs) ==
  LET key == _get_cache_key(self, text)
      found == looks_up(self, force, key)
      c0 == [NoCall EXCEPT !.sess = s, !.task = t, !.text = text,
                           !.force = force, !.key = key,
                           !.entry = entry_of(self.cache, key, fs)]
  IN  IF found /\ self.cache.type # "dict"
      THEN [cache |-> self.cache,
            call |-> [c0 EXCEPT !.op = "speak", !.outcome = "TypeError",
                                !.lookup = "hit"]]
      ELSE IF found /\ exists(fs, DictGet(self.cache, key))
      THEN [cache |-> self.cache,
            call |-> [c0 EXCEPT !.op = "speak", !.outcome = "cached",
                                !.ret = DictGet(self.cache, key),
                                !.lookup = "hit"]]
      ELSE [cache |-> IF found THEN invalidate(self.cache, key)
                      ELSE self.cache,
            call |-> [c0 EXCEPT !.op = "await", !.synth = 1,
                                !.voice = self.voice, !.rate = self.rate,
                                !.volume = self.volume,
                                !.output_path =
                                  output_path_of(self, text, filename, now),
                                !.lookup = IF found THEN "stale"
                                           ELSE "miss"]]

----------------------------------------------------------------------------
(* Inputs *)

TextA == <<"a">>
\* a second text with the slug of the first
TextA2 == <<"a", "!">>
Texts == {TextA, TextA2}
\* the text the callers of the class speak
LibraryTexts == {TextA}

\* the filename argument of speak: absent, or a name chosen by the caller
Filenames == {None, <<"x">>}

\* arguments of the constructor
VoiceArgs == {None}
RateArgs == {None, <<>>}
VolumeArgs == {None}

\* the voice argument of quick_speak: its default, another name of the
\* table, a name that is not in the table
QuickVoices ==
  {<<"d", "e", "n", "i", "s", "e">>, <<"h", "e", "n", "r", "i">>, <<"x">>}

InputLines ==
  {<<"a">>, <<"!", "a">>,
   <<"/", "v", "o", "i", "c", "e", " ", "d", "e", "n", "i", "s", "e">>,
   <<"/", "r", "a", "t", "e", " ", "+", "0", "%">>,
   <<"/", "c", "l", "e", "a", "r">>,
   <<"q">>}

\* the key of TextA under the configuration of config.py
KeyA ==
  md5_hexdigest_16(cache_content(TextA, FRENCH_VOICES[DEFAULT_VOICE],
                                 DEFAULT_RATE, DEFAULT_VOLUME))
OldPath == OUTPUT_DIR \o <<"/", "o", "l", "d">> \o MP3

\* what .cache.json may hold when the program starts: nothing, text that is
\* not JSON, an array, or the mapping an earlier run left (its audio file
\* since deleted)
InitialCacheFiles ==
  {Absent, Garbage, JsonArray(<<KeyA>>), JsonObject(<< <<KeyA, OldPath>> >>)}

Init ==
  /\ mode \in Modes
  /\ sess = [s \in Sessions |-> NoSession]
  /\ cache_file \in InitialCacheFiles
  /\ files = {}
  /\ clock = 0
  /\ call = [t \in Tasks |-> NoCall]
  /\ loop = "off"
  /\ last = NoCall
  /\ ncalls = 0
  /\ probe = NoProbe

----------------------------------------------------------------------------
(* Operations *)

\* FrenchTTS(voice, rate, volume, use_cache) by a caller of the class
Construct(s, voice, rate, volume, use_cache) ==
  /\ mode = "library"
  /\ ~sess[s].live
  /\ sess' = [sess EXCEPT ![s] =
                FrenchTTS(voice, rate, volume, use_cache, cache_file)]
  /\ last' = Did("construct", s, 0)
  /\ UNCHANGED <<mode, cache_file, files, clock, call, loop, ncalls, probe>>

\* what a coroutine is in once its speak call c is over: a quick process
\* ends, with the result of its only call; the others may call again
Finished(t, c) ==
  IF mode = "quick"
  THEN [Did("exited", t, t) EXCEPT !.key = c.key, !.outcome = c.outcome,
                                    !.io = c.io]
  ELSE NoCall

\* the state change of a speak call by coroutine t up to its await
SpeakStart(t, s, text, filename, force, line) ==
  LET r == speak_begin(s, t, sess[s], text, filename, force, clock, files)
      c == [r.call EXCEPT !.line = line]
  IN  /\ ncalls < MaxCalls
      /\ sess' = [sess EXCEPT ![s].cache = r.cache]
      /\ call' = [call EXCEPT ![t] = IF c.op = "await" THEN c
                                     ELSE Finished(t, c)]
      /\ last' = IF c.op = "await" THEN Did("await", s, t) ELSE c
      /\ ncalls' = ncalls + 1
      /\ UNCHANGED <<mode, cache_file, files, clock, probe>>

\* tts.speak(text, filename=..., force_regenerate=...) by a caller of the
\* class.  Coroutines that do not overlap cannot be told apart, so the
\* second one is only started while the first is awaiting.
Speak(t, s, text, filename, force) ==
  /\ mode = "library"
  /\ sess[s].live
  /\ call[t].op = "none"
  /\ t = 2 => call[1].op = "await"
  /\ SpeakStart(t, s, text, filename, force, None)
  /\ UNCHANGED loop

\* line 210: self.cache[cache_key] = output_path
store(cache, key, path) == DictSet(cache, key, path)

\* the collaborator wrote the audio: speak, lines 204-217
SynthOk(t, io) ==
  LET c == call[t]
      self == sess[c.sess]
      stored == store(self.cache, c.key, c.output_path)
      returned == [c EXCEPT !.op = "speak", !.outcome = "synthesized",
                            !.ret = c.output_path]
  IN  /\ c.op = "await"
      /\ files' = Written(files, c.output_path, c, TRUE)
      /\ IF ~self.use_cache
         THEN /\ last' = returned
              /\ UNCHANGED <<sess, cache_file>>
         ELSE IF self.cache.type # "dict"
         THEN /\ last' = [c EXCEPT !.op = "speak", !.outcome = "TypeError"]
              /\ UNCHANGED <<sess, cache_file>>
         ELSE /\ sess' = [sess EXCEPT ![c.sess].cache = stored]
              /\ cache_file' = _save_cache(stored, cache_file, io)
              /\ last' = [returned EXCEPT !.io = io]
      /\ call' = [call EXCEPT ![t] = Finished(t, last')]
      /\ loop' = IF t = LoopTask THEN "input" ELSE loop
      /\ UNCHANGED <<mode, clock, ncalls, probe>>

\* an exception that leaves the loop, as one that no handler catches does
except_nothing(t, lp) == IF t = LoopTask THEN "cancelled" ELSE lp

\* lines 330-331, `except Exception as e: print(...)`: the while loop goes
\* on to its next turn; other callers of speak have no loop
except_Exception(t, lp) == IF t = LoopTask THEN "input" ELSE lp

\* communicate.save raised; it may have opened the file before
SynthFail(t, opened) ==
  LET c == call[t]
  IN  /\ c.op = "await"
      /\ files' = IF opened THEN Written(files, c.output_path, c, FALSE)
                  ELSE files
      /\ last' = [c EXCEPT !.op = "speak", !.outcome = "SynthesisFailed"]
      /\ call' = [call EXCEPT ![t] = Finished(t, last')]
      /\ loop' = except_Exception(t, loop)
      /\ UNCHANGED <<mode, sess, cache_file, clock, ncalls, probe>>

\* len(self.cache)
len(c) == Len(c.items)

\* clear_cache without lines 109-110
clear_cache_keeping_file(file) == file

\* FrenchTTS.clear_cache: the file after `if exists: os.remove`
clear_cache(file) == IF file.kind # "absent" THEN Absent ELSE file

ClearCache(s) ==
  /\ mode = "library"
  /\ sess[s].live
  /\ sess' = [sess EXCEPT ![s].cache = EmptyDict]
  /\ cache_file' = clear_cache(cache_file)
  /\ last' = [Did("clear", s, 0) EXCEPT !.count = len(sess[s].cache)]
  /\ UNCHANGED <<mode, files, clock, call, loop, ncalls, probe>>

----------------------------------------------------------------------------
(* quick_speak(text, voice), one call per process *)

\* tts = FrenchTTS(voice=voice); the processes are alike, so the second
\* starts after the first
QuickConstruct(p, voice) ==
  /\ mode = "quick"
  /\ ~sess[p].live
  /\ p = 2 => sess[1].live
  /\ sess' = [sess EXCEPT ![p] =
                FrenchTTS(voice, None, None, TRUE, cache_file)]
  /\ last' = [Did("construct", p, p) EXCEPT !.voice = voice]
  /\ UNCHANGED <<mode, cache_file, files, clock, call, loop, ncalls, probe>>

\* asyncio.run(tts.speak(text))
QuickSpeak(p, text) ==
  /\ mode = "quick"
  /\ sess[p].live
  /\ call[p].op = "none"
  /\ SpeakStart(p, p, text, None, FALSE, None)
  /\ UNCHANGED loop

----------------------------------------------------------------------------
(* interactive_mode *)

\* tts = FrenchTTS()
InteractiveStart ==
  /\ mode = "interactive"
  /\ loop = "off"
  /\ sess' = [sess EXCEPT ![InteractiveSession] =
                FrenchTTS(None, None, None, TRUE, cache_file)]
  /\ loop' = "input"
  /\ last' = Did("construct", InteractiveSession, LoopTask)
  /\ UNCHANGED <<mode, cache_file, files, clock, call, ncalls, probe>>

QuitWords ==
  {<<"q", "u", "i", "t">>, <<"e", "x", "i", "t">>, <<"q">>}
CmdVoice == <<"/", "v", "o", "i", "c", "e", " ">>
CmdRate == <<"/", "r", "a", "t", "e", " ">>
CmdHelp == <<"/", "h", "e", "l", "p">>
CmdList == <<"/", "l", "i", "s", "t">>
CmdCache == <<"/", "c", "a", "c", "h", "e">>
CmdClear == <<"/", "c", "l", "e", "a", "r">>

\* what the loop does with a line: lines 266-325
Dispatch(line) ==
  LET text == strip(line)
  IN  IF lower(text) \in QuitWords THEN "quit"
      ELSE IF text = <<>> THEN "empty"
      ELSE IF startswith(text, CmdVoice) THEN "voice"
      ELSE IF startswith(text, CmdRate) THEN "rate"
      ELSE IF text = CmdHelp THEN "help"
      ELSE IF text = CmdList THEN "list"
      ELSE IF text = CmdCache THEN "cache"
      ELSE IF text = CmdClear THEN "clear"
      ELSE "speak"

\* lines 319-322: the force flag and the text handed to speak
ForceOf(line) == startswith(strip(line), <<"!">>)
SpokenText(line) ==
  IF ForceOf(line) THEN strip(Tail(strip(line))) ELSE strip(line)

\* lines 277-279: the voice of the session after `/voice <name>`
VoiceCommand(self, text) ==
  IF split(text)[2] \in VoiceNames THEN FRENCH_VOICES[split(text)[2]]
  ELSE self.voice

\* lines 287-288: the rate of the session after `/rate <value>`
RateCommand(self, text) == split(text)[2]

\* one turn of the while loop, up to the await of speak if it gets there
ReadLine(line) ==
  LET d == Dispatch(line)
      text == strip(line)
      self == sess[InteractiveSession]
      done == [Did("line", InteractiveSession, LoopTask) EXCEPT
                 !.line = line]
  IN  /\ loop = "input"
      /\ CASE d = "quit" ->
                /\ loop' = "exited"
                /\ last' = done
                /\ UNCHANGED <<mode, sess, cache_file, files, clock, call,
                               ncalls, probe>>
           [] d = "voice" ->
                /\ sess' = [sess EXCEPT ![InteractiveSession].voice =
                              VoiceCommand(self, text)]
                /\ last' = done
                /\ UNCHANGED <<mode, cache_file, files, clock, call, loop,
                               ncalls, probe>>
           [] d = "rate" ->
                /\ sess' = [sess EXCEPT ![InteractiveSession].rate =
                              RateCommand(self, text)]
                /\ last' = done
                /\ UNCHANGED <<mode, cache_file, files, clock, call, loop,
                               ncalls, probe>>
           [] d = "clear" ->
                /\ sess' = [sess EXCEPT ![InteractiveSession].cache =
                              EmptyDict]
                /\ cache_file' = clear_cache(cache_file)
                /\ last' = [done EXCEPT !.op = "clear",
                                        !.count = len(self.cache)]
                /\ UNCHANGED <<mode, files, clock, call, loop, ncalls,
                               probe>>
           [] d = "speak" ->
                /\ SpeakStart(LoopTask, InteractiveSession, SpokenText(line),
                              None, ForceOf(line), line)
                /\ loop' = IF call'[LoopTask].op = "await" THEN "await"
                           ELSE "input"
           [] OTHER ->
                /\ last' = done
                /\ UNCHANGED <<mode, sess, cache_file, files, clock, call,
                               loop, ncalls, probe>>

----------------------------------------------------------------------------
(* The environment *)

\* somebody deletes an audio file
DeleteFile(path) ==
  /\ exists(files, path)
  /\ files' = {f \in files : f.path # path}
  /\ last' = NoCall
  /\ UNCHANGED <<mode, sess, cache_file, clock, call, loop, ncalls,
                 probe>>

\* a second passes.  Only the seconds in which a call starts can be told
\* apart, so the clock is not run ahead of the calls, nor past the last one.
Tick ==
  /\ clock < ncalls
  /\ ncalls < MaxCalls
  /\ clock' = clock + 1
  /\ last' = NoCall
  /\ UNCHANGED <<mode, sess, cache_file, files, call, loop, ncalls,
                 probe>>

Next ==
  \/ \E v \in VoiceArgs, r \in RateArgs, w \in VolumeArgs, u \in BOOLEAN :
       Construct(LibrarySession, v, r, w, u)
  \/ \E t \in LibraryTasks, x \in LibraryTexts, f \in Filenames,
        g \in BOOLEAN :
       Speak(t, LibrarySession, x, f, g)
  \/ \E t \in Tasks, io \in IoOutcomes : SynthOk(t, io)
  \/ \E t \in Tasks, opened \in BOOLEAN : SynthFail(t, opened)
  \/ ClearCache(LibrarySession)
  \/ \E p \in Sessions, v \in QuickVoices : QuickConstruct(p, v)
  \/ \E p \in Sessions, x \in Texts : QuickSpeak(p, x)
  \/ InteractiveStart
  \/ \E line \in InputLines : ReadLine(line)
  \/ \E f \in files : DeleteFile(f.path)
  \/ Tick

Spec == Init /\ [][Next]_vars

----------------------------------------------------------------------------
(* Key derivation on its own: _get_cache_key applied to a session state and *)
(* a text drawn from bounded sets                                          *)

\* longest rate and volume string of the probe
MaxFieldLen == 2

\* the strings of 1 .. n characters over the alphabet
RECURSIVE StringsUpTo(_, _)
StringsUpTo(alphabet, n) ==
  IF n = 0 THEN {<<>>}
  ELSE LET shorter == StringsUpTo(alphabet, n - 1)
       IN  shorter \cup {Append(x, c) : x \in shorter, c \in alphabet}

\* rate and volume are never empty in a session: `rate or DEFAULT_RATE`
ProbeFields == StringsUpTo({"a", "|"}, MaxFieldLen) \ {<<>>}
ProbeTexts == {<<>>, <<"a">>, <<"|">>, <<"a", "|">>}
ProbeVoices ==
  {FRENCH_VOICES[<<"h", "e", "n", "r", "i">>],
   FRENCH_VOICES[<<"d", "e", "n", "i", "s", "e">>]}
ProbeCaches == {EmptyDict, DictSet(EmptyDict, KeyA, OldPath)}
ProbeDirs == {OUTPUT_DIR, <<"o", "u", "t">>}

\* what of a session the key is claimed not to depend on
ProbeRest ==
  {[use_cache |-> TRUE, auto_play |-> TRUE, output_dir |-> OUTPUT_DIR,
    cache |-> EmptyDict],
   [use_cache |-> FALSE, auto_play |-> TRUE, output_dir |-> <<"o", "u", "t">>,
    cache |-> EmptyDict],
   [use_cache |-> TRUE, auto_play |-> FALSE, output_dir |-> OUTPUT_DIR,
    cache |-> DictSet(EmptyDict, KeyA, OldPath)]}

ProbeSession(voice, rate, volume, rest) ==
  [live |-> TRUE, voice |-> voice, rate |-> rate, volume |-> volume,
   output_dir |-> rest.output_dir, auto_play |-> rest.auto_play,
   use_cache |-> rest.use_cache, cache |-> rest.cache]

KeyInit ==
  /\ mode = "probe"
  /\ sess = [s \in Sessions |-> NoSession]
  /\ cache_file = Absent
  /\ files = {}
  /\ clock = 0
  /\ call = [t \in Tasks |-> NoCall]
  /\ loop = "off"
  /\ last = NoCall
  /\ ncalls = 0
  /\ \E v \in ProbeVoices, r \in ProbeFields, w \in ProbeFields,
        rest \in ProbeRest, x \in ProbeTexts :
       probe = [NoProbe EXCEPT !.self = ProbeSession(v, r, w, rest),
                               !.text = x]

\* cache_key = self._get_cache_key(text)
DeriveKey ==
  /\ mode = "probe"
  /\ ~probe.done
  /\ probe' = [probe EXCEPT
                 !.content = cache_content(probe.text, probe.self.voice,
                                           probe.self.rate,
                                           probe.self.volume),
                 !.key = _get_cache_key(probe.self, probe.text),
                 !.done = TRUE]
  /\ UNCHANGED <<mode, sess, cache_file, files, clock, call, loop, last,
                 ncalls>>

KeySpec == KeyInit /\ [][DeriveKey]_vars

----------------------------------------------------------------------------
(* Claims.  `last` is written by every step, so a predicate on it speaks   *)
(* of the state right after the operation it names has returned or raised. *)

\* the entries of a store value, and none for a list
Entries(c) == IF c.type = "dict" THEN Pairs(c) ELSE {}

\* the speak call that has just returned or raised
Returned == last.op = "speak"
\* the speak call that has just reached its await
Awaiting == last.op = "await"
AwaitedCall == call[last.task]

\* C1: after every operation that mutates the cache store (the insert after
\* a synthesis, the removal of a stale entry, clear_cache) has returned or
\* raised, the mapping the session holds in memory equals the mapping a load
\* of the cache file returns.  An operation whose own write of the file
\* failed is left aside (CachePersistFailed).
C1_MemoryEqualsPersisted ==
  LET self == sess[last.sess]
      mutated ==
        \/ last.op = "clear"
        \/ Returned /\ last.lookup = "stale"
        \/ Returned /\ last.outcome = "synthesized" /\ self.use_cache
  IN  mutated /\ last.io \notin {"open_fails", "write_fails"}
        => self.cache = _load_cache(cache_file)

\* C2: with caching enabled and no force-regenerate, a speak call whose key
\* the store maps to a path F whose file exists returns F, does not invoke
\* the synthesis collaborator and leaves the store, in memory and on disk,
\* as it was.
C2_CacheHit ==
  [][\A s \in Sessions, x \in Texts :
       LET self == sess[s]
           key == md5_hexdigest_16(
                    cache_content(x, self.voice, self.rate, self.volume))
       IN  (/\ ncalls' = ncalls + 1
            /\ (IF last'.op = "await" THEN call'[last'.task] ELSE last').sess = s
            /\ (IF last'.op = "await" THEN call'[last'.task] ELSE last').text = x
            /\ ~(IF last'.op = "await" THEN call'[last'.task]
                 ELSE last').force
            /\ self.use_cache
            /\ self.cache.type = "dict"
            /\ \E e \in Pairs(self.cache) :
                 e[1] = key /\ exists(files, e[2]))
           => /\ last'.op = "speak"
              /\ last'.outcome = "cached"
              /\ <<key, last'.ret>> \in Pairs(self.cache)
              /\ last'.synth = 0
              /\ sess' = sess
              /\ cache_file' = cache_file
              /\ files' = files]_vars

\* a cached path was returned
C2_Witness ==
  /\ Returned
  /\ last.outcome = "cached"
  /\ exists(files, last.ret)

\* C3 as stated: whenever the store maps the key of the request to a path
\* whose file is gone, speak removes that entry and invokes the collaborator
\* exactly once; when the call is over, no error but a failure of the
\* collaborator has been raised, and on success the store maps the key to
\* the new output path, which is the path returned.
C3_StaleRecoveryAlways ==
  /\ Awaiting /\ AwaitedCall.entry = "stale"
       => /\ ~In(AwaitedCall.key, sess[last.sess].cache)
          /\ AwaitedCall.synth = 1
  /\ Returned /\ last.entry = "stale"
       => /\ last.synth = 1
          /\ last.outcome \in {"synthesized", "SynthesisFailed"}
          /\ last.outcome = "synthesized"
               => /\ last.ret = last.output_path
                  /\ <<last.key, last.output_path>>
                       \in Entries(sess[last.sess].cache)

\* C3, amended: the same of the calls made with caching enabled and without
\* force-regenerate.
C3_StaleRecovery ==
  /\ (/\ Awaiting
      /\ AwaitedCall.entry = "stale"
      /\ sess[last.sess].use_cache
      /\ ~AwaitedCall.force)
       => /\ ~In(AwaitedCall.key, sess[last.sess].cache)
          /\ AwaitedCall.synth = 1
  /\ (/\ Returned
      /\ last.entry = "stale"
      /\ sess[last.sess].use_cache
      /\ ~last.force)
       => /\ last.synth = 1
          /\ last.outcome \in {"synthesized", "SynthesisFailed"}
          /\ last.outcome = "synthesized"
               => /\ last.ret = last.output_path
                  /\ <<last.key, last.output_path>>
                       \in Entries(sess[last.sess].cache)

\* a stale entry was replaced by the path of a new synthesis
C3_Witness ==
  /\ Returned
  /\ last.entry = "stale"
  /\ last.lookup = "stale"
  /\ last.outcome = "synthesized"
  /\ <<last.key, last.ret>> \in Entries(sess[last.sess].cache)

\* in the interactive loop, the line starts with '!' once stripped
Banged(line) == strip(line) # <<>> /\ Head(strip(line)) = "!"

\* the call of the interactive loop that has just begun or ended
LoopCall == IF Awaiting THEN AwaitedCall ELSE last

\* C4 as stated: a speak call with force-regenerate on a key the store holds
\* never returns the cached path, invokes the collaborator, and on success
\* the store maps the key to the new output path; the interactive loop
\* speaks a line with a leading '!' with force-regenerate set.
C4_ForceRegenerateAlways ==
  /\ Returned /\ last.force /\ last.entry \in {"present", "stale"}
       => /\ last.outcome # "cached"
          /\ last.synth = 1
          /\ last.outcome = "synthesized"
               => <<last.key, last.output_path>>
                    \in Entries(sess[last.sess].cache)
  /\ (Returned \/ Awaiting) /\ LoopCall.line # None /\ Banged(LoopCall.line)
       => LoopCall.force

\* C4, amended: the same of the calls made with caching enabled.
C4_ForceRegenerate ==
  /\ (/\ Returned
      /\ last.force
      /\ last.entry \in {"present", "stale"}
      /\ sess[last.sess].use_cache)
       => /\ last.outcome # "cached"
          /\ last.synth = 1
          /\ last.outcome = "synthesized"
               => <<last.key, last.output_path>>
                    \in Entries(sess[last.sess].cache)
  /\ (Returned \/ Awaiting) /\ LoopCall.line # None /\ Banged(LoopCall.line)
       => LoopCall.force

\* a '!' line of the interactive loop overwrote the path of a cached text
\* whose file was there
C4_Witness ==
  /\ Returned
  /\ last.line # None
  /\ Banged(last.line)
  /\ last.entry = "present"
  /\ last.outcome = "synthesized"
  /\ <<last.key, last.output_path>> \in Entries(sess[last.sess].cache)

\* C5: when the collaborator has failed, no entry of the store, in memory or
\* in the cache file, references the output path the call was writing to.
C5_NoPartialFileReferenced ==
  Returned /\ last.outcome = "SynthesisFailed"
    => \A e \in Entries(sess[last.sess].cache)
                  \cup Entries(_load_cache(cache_file)) :
         e[2] # last.output_path

\* C6: when clear_cache has returned, the mapping in memory is empty, the
\* cache file is gone, and a load (as by a session constructed now) returns
\* the empty mapping.
C6_Clear ==
  last.op = "clear"
    => /\ sess[last.sess].cache = EmptyDict
       /\ cache_file = Absent
       /\ _load_cache(cache_file) = EmptyDict
       /\ FrenchTTS(None, None, None, TRUE, cache_file).cache = EmptyDict

\* clear_cache removed at least one entry
C6_Witness == last.op = "clear" /\ last.count > 0

\* the cache file holds a well-formed mapping of keys to paths
WellFormed(file) == file.kind = "json" /\ file.type = "object"

\* C7: whatever the cache file holds, the load at construction yields a
\* mapping, the empty one unless the file holds a well-formed mapping, and
\* no later speak call fails because of what was loaded.
C7_LoadTotal ==
  /\ last.op = "construct"
       => /\ sess[last.sess].cache.type = "dict"
          /\ ~WellFormed(cache_file) => sess[last.sess].cache = EmptyDict
  /\ Returned => last.outcome # "TypeError"

----------------------------------------------------------------------------
(* Claims on the key *)

\* the tuples the derived key is compared with
ProbeTuples == ProbeTexts \X ProbeVoices \X ProbeFields \X ProbeFields

\* the tuple the key was derived from
ProbeTuple ==
  <<probe.text, probe.self.voice, probe.self.rate, probe.self.volume>>

\* C8: two distinct (text, voice, rate, volume) tuples never have the same
\* hashed content, and so never share a cache entry, texts, rates and
\* volumes that contain '|' included.
C8_Uniqueness ==
  probe.done
    => \A u \in ProbeTuples :
         u # ProbeTuple
           => cache_content(u[1], u[2], u[3], u[4]) # probe.content

\* the rates and voices the interactive commands of InputLines can set, and
\* the defaults
SomeVoices == ProbeVoices
SomeRates == {DEFAULT_RATE, <<"+", "0", "%">>}
SomeVolumes == {DEFAULT_VOLUME, <<"+", "5", "%">>}
SomeConfigs == SomeVoices \X SomeRates \X SomeVolumes

KeyOf(x, cfg) == md5_hexdigest_16(cache_content(x, cfg[1], cfg[2], cfg[3]))

\* tuples that differ in exactly one of the four fields
OneFieldApart(x, c, y, d) ==
  Cardinality({i \in 1..4 : <<x, c[1], c[2], c[3]>>[i]
                              # <<y, d[1], d[2], d[3]>>[i]}) = 1

\* C9: changing exactly one of text, voice, rate, volume changes the hashed
\* content and the key; and once /voice or /rate has changed the
\* configuration of the session, no text has the key it had before, so that
\* a speak call that returns a cached path returns the path of an entry made
\* under the configuration the session has now.
C9_Sensitivity ==
  /\ [](\A x \in Texts, y \in Texts, c \in SomeConfigs, d \in SomeConfigs :
          OneFieldApart(x, c, y, d)
            => /\ cache_content(x, c[1], c[2], c[3])
                    # cache_content(y, d[1], d[2], d[3])
               /\ KeyOf(x, c) # KeyOf(y, d))
  /\ [](Returned /\ last.outcome = "cached"
          => LET self == sess[last.sess]
                 now == <<self.voice, self.rate, self.volume>>
             IN  \A c \in SomeConfigs :
                   c # now => last.key # KeyOf(last.text, c))
  /\ [][\A s \in Sessions, x \in Texts :
          (/\ sess[s].live
           /\ sess'[s].live
           /\ <<sess'[s].voice, sess'[s].rate>> # <<sess[s].voice, sess[s].rate>>)
            => _get_cache_key(sess'[s], x) # _get_cache_key(sess[s], x)]_vars

\* a text is spoken whose entry under another rate or voice is in the store,
\* its file there, and the lookup misses
C9_Witness ==
  /\ Awaiting
  /\ AwaitedCall.lookup = "miss"
  /\ LET self == sess[last.sess]
         now == <<self.voice, self.rate, self.volume>>
     IN  \E c \in SomeConfigs, e \in Entries(self.cache) :
           /\ c # now
           /\ e[1] = KeyOf(AwaitedCall.text, c)
           /\ exists(files, e[2])

\* C10: two sessions that agree on voice, rate and volume derive the same
\* key for the same text, whatever their caches, use_cache and auto_play
\* flags and output directories.
C10_Determinism ==
  probe.done
    => \A rest \in ProbeRest :
         _get_cache_key(ProbeSession(probe.self.voice, probe.self.rate,
                                     probe.self.volume, rest), probe.text)
           = probe.key

\* a key was derived in a session another session differs from in cache,
\* flags and directory
C10_Witness ==
  /\ probe.done
  /\ \E rest \in ProbeRest :
       /\ rest.cache # probe.self.cache
       /\ rest.use_cache # probe.self.use_cache
       /\ rest.output_dir # probe.self.output_dir

----------------------------------------------------------------------------
(* FrenchTTS._sanitize_filename on bounded texts *)

MaxTextLen == 4
\* a max_length small enough for the texts above to be truncated
ShortMaxLength == 2

SlugAlphabet == {"a", "_", " ", "!", "-"}
SlugTexts == StringsUpTo(SlugAlphabet, MaxTextLen)
SlugMaxLengths == {ShortMaxLength, DefaultMaxLength}

Placeholder == <<"a", "u", "d", "i", "o">>

SlugInit ==
  /\ mode = "slug"
  /\ sess = [s \in Sessions |-> NoSession]
  /\ cache_file = Absent
  /\ files = {}
  /\ clock = 0
  /\ call = [t \in Tasks |-> NoCall]
  /\ loop = "off"
  /\ last = NoCall
  /\ ncalls = 0
  /\ \E text \in SlugTexts, max_length \in SlugMaxLengths :
       probe = [text |-> text, max_length |-> max_length, slug |-> <<>>,
                done |-> FALSE]

\* content = self._sanitize_filename(text)
Sanitize ==
  /\ mode = "slug"
  /\ ~probe.done
  /\ probe' = [probe EXCEPT
                 !.slug = _sanitize_filename(probe.text, probe.max_length),
                 !.done = TRUE]
  /\ UNCHANGED <<mode, sess, cache_file, files, clock, call, loop, last,
                 ncalls>>

SlugSpec == SlugInit /\ [][Sanitize]_vars

\* the characters the rule of the specification keeps, whitespace aside
Surviving(text) ==
  SelectSeq(text, LAMBDA c : c \in Letters \cup Digits \cup {"-", "'"})

\* the underscores of a slug, as positions
Underscores(slug) == {i \in 1..Len(slug) : slug[i] = "_"}

\* C11: for every text the slug is non-empty, no longer than max_length,
\* has underscores only as joiners between at most 4 words (none first, none
\* last, no two in a row, at most 3), and is the placeholder "audio" exactly
\* when no letter, digit, hyphen or apostrophe of the text survives.
C11_Slug ==
  probe.done
    => LET slug == probe.slug
       IN  /\ slug # <<>>
           /\ Len(slug) <= probe.max_length \/ slug = Placeholder
           /\ slug[Len(slug)] # "_"
           /\ slug[1] # "_"
           /\ \A i \in Underscores(slug) : i + 1 \notin Underscores(slug)
           /\ Cardinality(Underscores(slug)) <= MaxWords - 1
           /\ (slug = Placeholder) <=> (Surviving(probe.text) = <<>>)

----------------------------------------------------------------------------
(* _save_cache followed by _load_cache on bounded mappings *)

MaxEntries == 2

TripKeys == {<<"k">>, <<"l">>, <<"m">>}
TripPaths == {<<"p">>, <<"q">>}

\* the dicts of at most n entries, in every insertion order
RECURSIVE DictsUpTo(_)
DictsUpTo(n) ==
  IF n = 0 THEN {EmptyDict}
  ELSE LET shorter == DictsUpTo(n - 1)
       IN  shorter \cup
             {DictSet(d, k, p) : d \in shorter, k \in TripKeys, p \in TripPaths}

TripDicts == DictsUpTo(MaxEntries)
TripFiles == {Absent, Garbage, JsonObject(<< <<KeyA, OldPath>> >>)}

TripInit ==
  /\ mode = "roundtrip"
  /\ sess = [s \in Sessions |-> NoSession]
  /\ cache_file \in TripFiles
  /\ files = {}
  /\ clock = 0
  /\ call = [t \in Tasks |-> NoCall]
  /\ loop = "off"
  /\ last = NoCall
  /\ ncalls = 0
  /\ \E d \in TripDicts :
       probe = [cache |-> d, io |-> "none", loaded |-> EmptyDict,
                step |-> "start"]

\* self._save_cache()
SaveCache(io) ==
  /\ mode = "roundtrip"
  /\ probe.step = "start"
  /\ cache_file' = _save_cache(probe.cache, cache_file, io)
  /\ probe' = [probe EXCEPT !.io = io, !.step = "saved"]
  /\ UNCHANGED <<mode, sess, files, clock, call, loop, last, ncalls>>

\* self._load_cache()
LoadCache ==
  /\ mode = "roundtrip"
  /\ probe.step = "saved"
  /\ probe' = [probe EXCEPT !.loaded = _load_cache(cache_file),
                            !.step = "loaded"]
  /\ UNCHANGED <<mode, sess, cache_file, files, clock, call, loop, last,
                 ncalls>>

TripNext == (\E io \in IoOutcomes : SaveCache(io)) \/ LoadCache

TripSpec == TripInit /\ [][TripNext]_vars

----------------------------------------------------------------------------
(* Claims on the interactive loop and on sessions *)

\* the loop is over: after the while loop, or left by an exception
Terminated == {"exited", "cancelled"}

\* C13: in the interactive loop a failure of the collaborator ends the speak
\* call and nothing else: the loop is at its next input with the session as
\* it was when the failure was raised, and only a quit word ends the loop.
C13_LoopSurvivesFailure ==
  /\ [](mode = "interactive" /\ Returned /\ last.outcome = "SynthesisFailed"
          => loop = "input")
  /\ [][(/\ mode = "interactive"
         /\ loop = "await"
         /\ last'.op = "speak"
         /\ last'.outcome = "SynthesisFailed")
          => /\ loop' = "input"
             /\ sess' = sess
             /\ cache_file' = cache_file]_vars
  /\ [][(mode = "interactive" /\ loop \notin Terminated
           /\ loop' \in Terminated)
          => /\ last'.op = "line"
             /\ lower(strip(last'.line)) \in QuitWords]_vars

\* the second of two calls of the loop has failed, and nothing is in the
\* store or on disk, and the loop reads on
C13_Witness ==
  /\ mode = "interactive"
  /\ Returned
  /\ last.outcome = "SynthesisFailed"
  /\ ncalls >= 2
  /\ sess[InteractiveSession].cache = EmptyDict
  /\ files = {}
  /\ loop = "input"

----------------------------------------------------------------------------
(* interactive_mode with interrupts, on a wider set of input lines *)

LoopLines ==
  InputLines \cup
  {<<>>, <<" ">>, <<"!">>, <<"Q">>, <<" ", "a", " ">>,
   <<"/", "v", "o", "i", "c", "e">>,
   <<"/", "v", "o", "i", "c", "e", " ", "x">>,
   <<"/", "r", "a", "t", "e">>,
   <<"/", "h", "e", "l", "p">>,
   <<"/", "l", "i", "s", "t">>,
   <<"/", "c", "a", "c", "h", "e">>}

LoopFiles == {Absent, JsonObject(<< <<KeyA, OldPath>> >>)}

LoopInit ==
  /\ mode = "interactive"
  /\ sess = [s \in Sessions |-> NoSession]
  /\ cache_file \in LoopFiles
  /\ files = {}
  /\ clock = 0
  /\ call = [t \in Tasks |-> NoCall]
  /\ loop = "off"
  /\ last = NoCall
  /\ ncalls = 0
  /\ probe = NoProbe

\* Ctrl-C while input() waits: KeyboardInterrupt is raised in the try block
\* and caught at lines 327-329; break, then lines 334-338
Interrupt ==
  /\ mode = "interactive"
  /\ loop = "input"
  /\ loop' = "exited"
  /\ last' = Did("interrupt", InteractiveSession, LoopTask)
  /\ UNCHANGED <<mode, sess, cache_file, files, clock, call, ncalls, probe>>

\* Ctrl-C while speak awaits communicate.save: asyncio.run cancels the task
\* of interactive_mode, CancelledError is raised at line 202 and, not being
\* an Exception nor a KeyboardInterrupt, is caught by neither handler of the
\* loop: the coroutine is left at line 325 and lines 334-338 are not run
InterruptAwait(opened) ==
  LET c == call[LoopTask]
  IN  /\ mode = "interactive"
      /\ loop = "await"
      /\ loop' = "cancelled"
      /\ files' = IF opened THEN Written(files, c.output_path, c, FALSE)
                  ELSE files
      /\ call' = [call EXCEPT ![LoopTask] = NoCall]
      /\ last' = [c EXCEPT !.op = "interrupt", !.outcome = "CancelledError"]
      /\ UNCHANGED <<mode, sess, cache_file, clock, ncalls, probe>>

\* Ctrl-C raised as KeyboardInterrupt inside json.dump of _save_cache (an
\* event loop that leaves SIGINT to Python's default handler): the file was
\* truncated by open(..., 'w'), `except Exception` at line 97 does not catch
\* it, lines 327-329 do
InterruptSave ==
  LET c == call[LoopTask]
      self == sess[c.sess]
  IN  /\ mode = "interactive"
      /\ loop = "await"
      /\ self.use_cache
      /\ self.cache.type = "dict"
      /\ files' = Written(files, c.output_path, c, TRUE)
      /\ sess' = [sess EXCEPT ![c.sess].cache =
                    store(self.cache, c.key, c.output_path)]
      /\ cache_file' = Garbage
      /\ loop' = "exited"
      /\ call' = [call EXCEPT ![LoopTask] = NoCall]
      /\ last' = [c EXCEPT !.op = "interrupt",
                           !.outcome = "KeyboardInterrupt"]
      /\ UNCHANGED <<mode, clock, ncalls, probe>>

\* lines 334-338 have run: readline.write_history_file(histfile)
history_written == loop = "exited"

LoopNext ==
  \/ InteractiveStart
  \/ \E line \in LoopLines : ReadLine(line)
  \/ SynthOk(LoopTask, "ok")
  \/ \E opened \in BOOLEAN : SynthFail(LoopTask, opened)
  \/ Interrupt
  \/ \E opened \in BOOLEAN : InterruptAwait(opened)
  \/ InterruptSave

LoopSpec == LoopInit /\ [][LoopNext]_vars

\* the command prefixes of the specification
CommandPrefixes ==
  {<<"/", "v", "o", "i", "c", "e">>, <<"/", "r", "a", "t", "e">>,
   CmdList, CmdCache, CmdHelp, CmdClear}

\* the line a turn of the loop has just dealt with, None if no turn has
TurnLine ==
  IF last.op = "await" THEN call[LoopTask].line
  ELSE IF last.op \in {"line", "clear", "speak"} THEN last.line
  ELSE None

\* the text given to speak in that turn
TurnText == IF last.op = "await" THEN call[LoopTask].text ELSE last.text

\* C14: speak is invoked for a line exactly when the trimmed line is not
\* empty, is not quit, exit or q, and begins with none of the command
\* prefixes; the text passed is then not empty and is the line without a
\* leading '!'.
C14_Dispatch ==
  TurnLine # None
    => LET text == strip(TurnLine)
           invoked == last.op \in {"await", "speak"}
           expected ==
             /\ text # <<>>
             /\ lower(text) \notin QuitWords
             /\ \A p \in CommandPrefixes : ~startswith(text, p)
       IN  /\ invoked <=> expected
           /\ invoked
                => /\ TurnText # <<>>
                   /\ TurnText = strip(IF Head(text) = "!" THEN Tail(text)
                                       ELSE text)


\* C16: when the loop terminates, by a quit word or by an interrupt while it
\* waits for input or for the collaborator, the line history has been
\* written, and the cache file is the one from before the step or holds the
\* mapping the session has after it; once terminated, the loop handles no
\* further line.
C16_Termination ==
  /\ [][(loop \notin Terminated /\ loop' \in Terminated)
          => /\ history_written'
             /\ \/ cache_file' = cache_file
                \/ cache_file' = json_dump(sess'[InteractiveSession].cache)
       ]_vars
  /\ [][(loop \in Terminated) => (vars' = vars)]_vars


\* the provider identifiers of the table
ProviderIds == {FRENCH_VOICES[n] : n \in VoiceNames}

\* the name given to /voice in the line, None if the line is no /voice line
VoiceNamed(line) ==
  IF line # None /\ Dispatch(line) = "voice" THEN split(strip(line))[2]
  ELSE None

\* C15: a session constructed with a voice name outside the table, or told
\* /voice with such a name, has the provider identifier of DEFAULT_VOICE as
\* its voice; the voice of every session is a provider identifier of the
\* table.
C15_UnknownVoice ==
  /\ (/\ last.op = "construct"
      /\ last.voice \notin VoiceNames \cup {None, <<>>})
       => sess[last.sess].voice = FRENCH_VOICES[DEFAULT_VOICE]
  /\ (/\ last.op = "line"
      /\ VoiceNamed(last.line) \notin VoiceNames \cup {None})
       => sess[last.sess].voice = FRENCH_VOICES[DEFAULT_VOICE]
  /\ \A s \in Sessions : sess[s].live => sess[s].voice \in ProviderIds


\* C17: on a session with use_cache false, every speak call reaches the
\* collaborator, once, whatever the store holds, and neither its start nor
\* its end, successful or not, changes the mapping in memory or the cache
\* file.
C17_CachingDisabled ==
  /\ [][(/\ ncalls' = ncalls + 1
         /\ ~sess[last'.sess].use_cache)
          => /\ last'.op = "await"
             /\ call'[last'.task].synth = 1
             /\ sess' = sess
             /\ cache_file' = cache_file]_vars
  /\ [][(/\ last'.op = "speak"
         /\ ncalls' = ncalls
         /\ ~sess[last'.sess].use_cache)
          => /\ last'.synth = 1
             /\ last'.outcome \in {"synthesized", "SynthesisFailed"}
             /\ sess' = sess
             /\ cache_file' = cache_file]_vars

\* a call with caching disabled has synthesized a text whose key the store
\* holds, and the store holds it still, with the old path
C17_Witness ==
  /\ Returned
  /\ ~sess[last.sess].use_cache
  /\ last.outcome = "synthesized"
  /\ last.entry = "stale"
  /\ <<last.key, OldPath>> \in Entries(sess[last.sess].cache)
  /\ Entries(_load_cache(cache_file)) = {<<last.key, OldPath>>}


\* the key of the tuple an audio file was synthesized for
KeyOfAudio(f) == md5_hexdigest_16(cache_content(f.text, f.voice, f.rate,
                                                f.volume))

\* C18: for every entry of a session's store whose file exists, the file
\* holds the whole audio synthesized for the (text, voice, rate, volume) the
\* key of the entry derives from.
C18_Coherence ==
  \A s \in Sessions :
    sess[s].live
      => \A e \in Entries(sess[s].cache), f \in files :
           f.path = e[2] => f.whole /\ KeyOfAudio(f) = e[1]


\* a session constructed now with the configuration of config.py
SessionNow(file) == FrenchTTS(None, None, None, TRUE, file)

\* the step ends a speak call that stored an entry under this key
Restored(key) ==
  last'.op = "speak" /\ last'.outcome = "synthesized" /\ last'.key = key

\* the step is a clear_cache, or a write of the cache file that failed
ClearedOrFailed ==
  last'.op = "clear" \/ last'.io \in {"open_fails", "write_fails"}

\* C19: an entry a successful speak call has stored and persisted stays what
\* a later request for the same tuple finds, in the session that stored it
\* and in a session constructed later, for as long as its file exists, no
\* clear_cache is called and no later call stores the key anew: every step
\* keeps the entry in the memory of the session that holds it, and keeps it
\* in what a session constructed after the step loads and looks up.
C19_RepeatedRequest ==
  /\ [][\A s \in Sessions :
          \A e \in Entries(sess[s].cache) :
            (/\ sess[s].live
             /\ exists(files, e[2])
             /\ exists(files', e[2])
             /\ ~ClearedOrFailed
             /\ ~Restored(e[1]))
              => e \in Entries(sess'[s].cache)]_vars
  /\ [][\A e \in Entries(_load_cache(cache_file)) :
          (/\ exists(files, e[2])
           /\ exists(files', e[2])
           /\ ~ClearedOrFailed
           /\ ~Restored(e[1]))
            => /\ looks_up(SessionNow(cache_file'), FALSE, e[1])
               /\ e \in Entries(SessionNow(cache_file').cache)]_vars


\* every call of the run is over and has succeeded, cache write included
AllSucceeded ==
  \A p \in Sessions :
    /\ call[p].op = "exited"
    /\ call[p].outcome = "synthesized"
    /\ call[p].io = "ok"

\* C20: no update of the cache file is lost.  Calls on one session: when a
\* call has stored its entry and written the file, the file holds every key
\* the session holds in memory, those stored by coroutines that overlapped
\* with it included.  Calls on two sessions that each loaded the file at
\* construction: when both have succeeded, the file holds the keys of both.
C20_NoLostUpdate ==
  /\ (/\ Returned
      /\ last.outcome = "synthesized"
      /\ last.io = "ok")
       => Keys(sess[last.sess].cache) \subseteq Keys(_load_cache(cache_file))
  /\ (mode = "quick" /\ AllSucceeded)
       => \A p \in Sessions : call[p].key \in Keys(_load_cache(cache_file))

====
